---- MODULE Spec2Model ----
(***************************************************************************)
(* Model of process_invoices.py: the resumable, rate-limited batch that    *)
(* sends invoice images to an extraction model, keeps a progress ledger    *)
(* (progress.json) and appends the records to a result store               *)
(* (invoice_data.csv).                                                     *)
(*                                                                         *)
(* One behaviour is a sequence of process lifetimes of main(): each one    *)
(* constructs an InvoiceProcessor and calls process_all once.  A lifetime  *)
(* ends at the final summary, at an early return, with an exception that   *)
(* leaves process_all, or by the process being halted at any step.  The    *)
(* two files survive from one lifetime to the next; everything else is     *)
(* rebuilt by __init__.                                                    *)
(***************************************************************************)
EXTENDS Integers, Sequences, FiniteSets, TLC

\* ---------------------------------------------------------------- bounds
MaxImages == 3      \* most image files in the input folder
MaxRuns == 2        \* most process lifetimes in one behaviour
MaxCap == 1         \* largest max_files argument tried
MaxValueLen == 4    \* longest field value inside a model answer

\* ------------------------------------------------------ program constants
\* a retry loop that allows one attempt too many
max_retries_Mutant == 3 + 1

max_retries == 3
REQUESTS_PER_MINUTE == 15
DELAY_BETWEEN_REQUESTS == 60 \div REQUESTS_PER_MINUTE
DefaultRetryDelay == 60
SuggestedRetryDelay == 7    \* a retry_delay.seconds carried by ResourceExhausted

HEADER == 0         \* the header row of invoice_data.csv; data rows are ids >= 1

\* What one attempt of analyze_invoice can meet:
\*   record    the model's text decodes to an object with the expected fields
\*   extra     it decodes to an object that has a key outside fieldnames
\*   nondict   it decodes to JSON that is not an object
\*   malformed it does not decode (json.JSONDecodeError)
\*   quota     generate_content raises ResourceExhausted without retry_delay
\*   quotaHint generate_content raises ResourceExhausted with retry_delay
\*   error     generate_content raises anything else
\*   noimage   Image.open raises before the model is called
Outcomes ==
    {"record", "extra", "nondict", "malformed", "quota", "quotaHint", "error", "noimage"}

None == [invoice_file |-> 0, shape |-> "none"]

VARIABLES
    image_files,      \* the eligible files of the input folder, in iterdir order
    progress_file,    \* progress.json: [state: absent|valid|empty|partial, processed: Seq]
    output_csv,       \* invoice_data.csv as its sequence of rows (<<>> = absent or empty)
    pc,               \* where the current lifetime stands
    max_files,        \* argument of process_all (NoCap stands for None)
    processed_files,  \* local list of process_all
    remaining_files,  \* local list of process_all
    idx,              \* loop index of process_all (1-based, 0 before the loop)
    attempt,          \* loop variable of analyze_invoice
    result,           \* what analyze_invoice returned for the current item
    results,          \* self.results
    processed_count,  \* self.processed_count
    failed_count,     \* self.failed_count
    row,              \* position of save_results in self.results
    runs,             \* lifetimes started so far
    \* ---- observations of the run, written but never read by the program
    calls,            \* upstream calls made for the current item
    callLog,          \* per item of this run, the ids for which the model was called or the image opened
    sleeps,           \* backoff sleeps made by the analyze_invoice under way
    delays,           \* rate-limit delays made in this run
    delaySeconds,     \* their total length
    loaded,           \* what load_progress returned in this run
    lastOutcome,      \* outcome of the last attempt of the current item
    passed,           \* records handed to save_results invocations that ran to their end or raised
    torn,             \* TRUE once a lifetime was halted inside save_results
    before,           \* progress.json as it was when this lifetime's last save_progress began
    failedIds,        \* ids whose latest processing failed, over all lifetimes
    ending,           \* how the current lifetime ended, once it has
    prev,             \* how the previous lifetime ended
    \* ---- the parsing of one model answer, lines 170-180, taken on its own
    document,         \* the JSON text the model meant to give
    wrapper,          \* how the model wrapped it: [fence, newlines, padded]
    response_text,    \* response.text
    data              \* what json.loads returned for the cleaned text

vars == <<image_files, progress_file, output_csv, pc, max_files, processed_files,
          remaining_files, idx, attempt, result, results, processed_count,
          failed_count, row, runs, calls, callLog, sleeps, delays, delaySeconds,
          loaded, lastOutcome, passed, torn, before, failedIds, ending, prev,
          document, wrapper, response_text, data>>

parser == <<document, wrapper, response_text, data>>
env == <<image_files, runs, parser>>
files == <<progress_file, output_csv>>
frame == <<max_files, processed_files, remaining_files, idx, row>>
call == <<attempt, result, calls, sleeps, lastOutcome>>
counters == <<processed_count, failed_count, results>>
runobs == <<callLog, delays, delaySeconds, loaded>>
hist == <<passed, torn, before, failedIds, ending, prev>>

\* ----------------------------------------------------------------- helpers
Range(s) == {s[i] : i \in 1..Len(s)}

\* a filter that lets every enumerated file through
SelectNotIn_Mutant(s, done) == s

RECURSIVE SelectNotIn(_, _)
\* [f for f in image_files if f.name not in processed_files]
SelectNotIn(s, done) ==
    IF s = <<>> THEN <<>>
    ELSE IF Head(s) \in done THEN SelectNotIn(Tail(s), done)
         ELSE <<Head(s)>> \o SelectNotIn(Tail(s), done)

\* max_files = None, the default of process_all
NoCap == 0 - 1

\* the max_files arguments tried: None, 0 and the positive caps
Caps == {NoCap} \cup (0..MaxCap)

\* remaining_files[:max_files] under "if max_files:", which None and 0 both fail
Truncate(s, m) == IF m # NoCap /\ m # 0 /\ m < Len(s) THEN SubSeq(s, 1, m) ELSE s

NotEnded == [end |-> "none", persisted |-> FALSE, failed |-> FALSE, cut |-> FALSE]

Absent == [state |-> "absent", processed |-> <<>>]

DataRows(csv) == SelectSeq(csv, LAMBDA r : r # HEADER)
HeaderRows(csv) == SelectSeq(csv, LAMBDA r : r = HEADER)

\* the input folder holds files 1..n, listed in that order
InputFolders == {[i \in 1..n |-> i] : n \in 0..MaxImages}

\* ------------------------------------------------------------------- Init
\* no answer is being parsed
NoWrapper == [fence |-> "none", newlines |-> FALSE, padded |-> FALSE]
Unparsed == [ok |-> FALSE, value |-> <<"unparsed">>]

\* a processor just constructed on an empty output folder
Started ==
    /\ progress_file = Absent
    /\ output_csv = <<>>
    /\ pc = "idle"
    /\ max_files = NoCap
    /\ processed_files = <<>>
    /\ remaining_files = <<>>
    /\ idx = 0
    /\ attempt = 0
    /\ result = None
    /\ results = <<>>
    /\ processed_count = 0
    /\ failed_count = 0
    /\ row = 0
    /\ runs = 1
    /\ calls = 0
    /\ callLog = <<>>
    /\ sleeps = <<>>
    /\ delays = 0
    /\ delaySeconds = 0
    /\ loaded = <<>>
    /\ lastOutcome = "none"
    /\ passed = 0
    /\ torn = FALSE
    /\ before = Absent
    /\ failedIds = {}
    /\ ending = NotEnded
    /\ prev = NotEnded

Init ==
    /\ image_files \in InputFolders
    /\ Started
    /\ document = <<>>
    /\ wrapper = NoWrapper
    /\ response_text = <<>>
    /\ data = Unparsed

\* ---------------------------------------------------------------- actions
InRun == {"loop", "analyze", "tally", "save_progress", "dumping", "save_results",
          "writing", "rate"}
Ended == {"done", "noinput", "raised", "halted"}

\* the unfiltered, untruncated work of a run
Unprocessed(done) == SelectNotIn(image_files, Range(done))

\* __init__, lines 98-101, the locals of a process_all not yet called, and
\* nothing observed yet of the lifetime
Fresh ==
    /\ processed_count' = 0
    /\ failed_count' = 0
    /\ results' = <<>>
    /\ max_files' = NoCap
    /\ processed_files' = <<>>
    /\ remaining_files' = <<>>
    /\ idx' = 0
    /\ attempt' = 0
    /\ result' = None
    /\ row' = 0
    /\ calls' = 0
    /\ callLog' = <<>>
    /\ sleeps' = <<>>
    /\ delays' = 0
    /\ delaySeconds' = 0
    /\ loaded' = <<>>
    /\ lastOutcome' = "none"
    /\ before' = Absent

\* how a lifetime that ends now is remembered by the next one: how it ended,
\* whether that was between two items with an item processed and persisted,
\* and what its summary, if it came to one, told of failed and left-out files
Ending(how) ==
    [end |-> how,
     persisted |-> (pc \in {"loop", "rate"} /\ idx >= 1),
     failed |-> (how = "done" /\ failed_count > 0),
     cut |-> (how = "done" /\ Len(remaining_files) < Len(Unprocessed(loaded)))]

\* main(): a new process constructs a new InvoiceProcessor
Construct ==
    /\ pc \in Ended
    /\ runs < MaxRuns
    /\ runs' = runs + 1
    /\ pc' = "idle"
    /\ Fresh
    /\ prev' = ending
    /\ ending' = NotEnded
    /\ UNCHANGED <<image_files, parser, files, passed, torn, failedIds>>

\* before a new lifetime enumerates the input folder, the operator has taken
\* the images out of it
InputEmptied ==
    /\ pc = "idle"
    /\ runs > 1
    /\ image_files # <<>>
    /\ image_files' = <<>>
    /\ UNCHANGED <<runs, parser, files, pc, frame, call, counters, runobs, hist>>

\* a process_all that reads the ledger before it looks for images
NoImages_Mutant ==
    /\ pc = "idle"
    /\ image_files = <<>>
    /\ \E m \in Caps : max_files' = m
    /\ pc' = IF progress_file.state \in {"empty", "partial"} THEN "raised" ELSE "noinput"
    /\ ending' = Ending("noinput")
    /\ UNCHANGED <<env, files, processed_files, remaining_files, idx, row, call, counters,
                   runobs, passed, torn, before, failedIds, prev>>

\* process_all, lines 266-275: nothing eligible in the input folder
NoImages ==
    /\ pc = "idle"
    /\ image_files = <<>>
    /\ \E m \in Caps : max_files' = m
    /\ pc' = "noinput"
    /\ ending' = Ending("noinput")
    /\ UNCHANGED <<env, files, processed_files, remaining_files, idx, row, call, counters,
                   runobs, passed, torn, before, failedIds, prev>>

\* a load_progress that takes an undecodable ledger for an empty one
LedgerCorrupt_Mutant ==
    /\ pc = "idle"
    /\ image_files # <<>>
    /\ progress_file.state \in {"empty", "partial"}
    /\ \E m \in Caps :
         /\ max_files' = m
         /\ remaining_files' = Truncate(image_files, m)
    /\ processed_files' = <<>>
    /\ idx' = 0
    /\ pc' = "loop"
    /\ UNCHANGED <<env, files, row, call, counters, runobs, hist>>

\* process_all, line 278: json.load raises on a ledger that does not decode
LedgerCorrupt ==
    /\ pc = "idle"
    /\ image_files # <<>>
    /\ progress_file.state \in {"empty", "partial"}
    /\ \E m \in Caps : max_files' = m
    /\ pc' = "raised"
    /\ ending' = Ending("raised")
    /\ UNCHANGED <<env, files, processed_files, remaining_files, idx, row, call, counters,
                   runobs, passed, torn, before, failedIds, prev>>

\* a load_progress that does not read the ledger
load_progress_Mutant == <<>>

\* load_progress, lines 212-219
load_progress == IF progress_file.state = "absent" THEN <<>> ELSE progress_file.processed

\* process_all, lines 277-293
Resume ==
    /\ pc = "idle"
    /\ image_files # <<>>
    /\ progress_file.state \in {"absent", "valid"}
    /\ \E m \in Caps :
         /\ max_files' = m
         /\ remaining_files' = Truncate(SelectNotIn(image_files, Range(load_progress)), m)
    /\ processed_files' = load_progress
    /\ loaded' = load_progress
    /\ idx' = 0
    /\ pc' = "loop"
    /\ UNCHANGED <<env, files, row, call, counters, callLog, delays, delaySeconds, hist>>

\* process_all, lines 296-300: the loop takes the next file and calls analyze_invoice
NextItem ==
    /\ pc = "loop"
    /\ idx < Len(remaining_files)
    /\ idx' = idx + 1
    /\ attempt' = 0
    /\ result' = None
    /\ calls' = 0
    /\ sleeps' = <<>>
    /\ lastOutcome' = "none"
    /\ callLog' = Append(callLog, remaining_files[idx + 1])
    /\ pc' = "analyze"
    /\ UNCHANGED <<env, files, max_files, processed_files, remaining_files, row, counters,
                   delays, delaySeconds, loaded, hist>>

\* process_all, lines 318-327: the loop is over
Summary ==
    /\ pc = "loop"
    /\ idx >= Len(remaining_files)
    /\ pc' = "done"
    /\ ending' = Ending("done")
    /\ UNCHANGED <<env, files, frame, call, counters, runobs, passed, torn, before,
                   failedIds, prev>>

\* analyze_invoice returns: its loop variable and the sleeps of its frame are gone
Left == attempt' = 0 /\ sleeps' = <<>>

\* Image.open raises before generate_content is reached
Called(o) == IF o = "noimage" THEN 0 ELSE 1

\* analyze_invoice, lines 158-189: the text decodes to an object, which is returned
AnalyzeReturn ==
    /\ pc = "analyze"
    /\ \E o \in {"record", "extra"} :
         /\ lastOutcome' = o
         /\ result' = [invoice_file |-> remaining_files[idx],
                       shape |-> IF o = "record" THEN "ok" ELSE "extra"]
         /\ calls' = calls + Called(o)
    /\ Left
    /\ pc' = "tally"
    /\ UNCHANGED <<env, files, frame, counters, runobs, hist>>

\* an analyze_invoice that goes round its loop again after any failure
AnalyzeFail_Mutant ==
    /\ pc = "analyze"
    /\ \E o \in {"nondict", "malformed", "error", "noimage"} :
         /\ lastOutcome' = o
         /\ calls' = calls + Called(o)
    /\ result' = None
    /\ IF attempt < max_retries - 1
          THEN attempt' = attempt + 1 /\ sleeps' = sleeps /\ pc' = "analyze"
          ELSE Left /\ pc' = "tally"
    /\ UNCHANGED <<env, files, frame, counters, runobs, hist>>

\* analyze_invoice, lines 204-210: a failure that is not retried
AnalyzeFail ==
    /\ pc = "analyze"
    /\ \E o \in {"nondict", "malformed", "error", "noimage"} :
         /\ lastOutcome' = o
         /\ calls' = calls + Called(o)
    /\ result' = None
    /\ Left
    /\ pc' = "tally"
    /\ UNCHANGED <<env, files, frame, counters, runobs, hist>>

\* a backoff that never reads retry_delay
RetryDelay_Mutant(o) == DefaultRetryDelay

\* analyze_invoice, lines 194-198
RetryDelay(o) == IF o = "quotaHint" THEN SuggestedRetryDelay ELSE DefaultRetryDelay

\* analyze_invoice, lines 191-200: quota exhausted with an attempt left
AnalyzeQuotaRetry ==
    /\ pc = "analyze"
    /\ attempt < max_retries - 1
    /\ \E o \in {"quota", "quotaHint"} :
         /\ lastOutcome' = o
         /\ sleeps' = Append(sleeps, [after |-> calls + 1, hint |-> o = "quotaHint",
                                      seconds |-> RetryDelay(o)])
    /\ calls' = calls + 1
    /\ attempt' = attempt + 1
    /\ UNCHANGED <<env, files, pc, frame, result, counters, runobs, hist>>

\* analyze_invoice, lines 201-203: quota exhausted on the last attempt
AnalyzeQuotaGiveUp ==
    /\ pc = "analyze"
    /\ ~(attempt < max_retries - 1)
    /\ \E o \in {"quota", "quotaHint"} : lastOutcome' = o
    /\ calls' = calls + 1
    /\ result' = None
    /\ Left
    /\ pc' = "tally"
    /\ UNCHANGED <<env, files, frame, counters, runobs, hist>>

\* the frame of analyze_invoice is gone once process_all has taken its result
Returned ==
    /\ attempt' = 0
    /\ result' = None
    /\ calls' = 0
    /\ sleeps' = <<>>
    /\ lastOutcome' = "none"

\* a loop that forgets to count a success
TallySuccess_Mutant ==
    /\ pc = "tally"
    /\ result # None
    /\ results' = Append(results, result)
    /\ processed_files' = Append(processed_files, remaining_files[idx])
    /\ failedIds' = failedIds \ {remaining_files[idx]}
    /\ pc' = "save_progress"
    /\ Returned
    /\ UNCHANGED <<env, files, max_files, remaining_files, idx, row, failed_count,
                   processed_count, runobs, passed, torn, before, ending, prev>>

\* process_all, lines 302-305
TallySuccess ==
    /\ pc = "tally"
    /\ result # None
    /\ results' = Append(results, result)
    /\ processed_files' = Append(processed_files, remaining_files[idx])
    /\ processed_count' = processed_count + 1
    /\ failedIds' = failedIds \ {remaining_files[idx]}
    /\ pc' = "save_progress"
    /\ Returned
    /\ UNCHANGED <<env, files, max_files, remaining_files, idx, row, failed_count,
                   runobs, passed, torn, before, ending, prev>>

\* a loop that marks a failed file as processed
TallyFailure_Mutant ==
    /\ pc = "tally"
    /\ result = None
    /\ failed_count' = failed_count + 1
    /\ processed_files' = Append(processed_files, remaining_files[idx])
    /\ failedIds' = failedIds \cup {remaining_files[idx]}
    /\ pc' = "save_progress"
    /\ Returned
    /\ UNCHANGED <<env, files, max_files, remaining_files, idx, row, processed_count,
                   results, runobs, passed, torn, before, ending, prev>>

\* process_all, lines 306-307
TallyFailure ==
    /\ pc = "tally"
    /\ result = None
    /\ failed_count' = failed_count + 1
    /\ failedIds' = failedIds \cup {remaining_files[idx]}
    /\ pc' = "save_progress"
    /\ Returned
    /\ UNCHANGED <<env, files, frame, processed_count, results, runobs, passed, torn,
                   before, ending, prev>>

\* save_progress, line 223: open(progress_file, 'w') truncates the file
SaveProgressOpen ==
    /\ pc = "save_progress"
    /\ before' = progress_file
    /\ progress_file' = [state |-> "empty", processed |-> <<>>]
    /\ pc' = "dumping"
    /\ UNCHANGED <<env, output_csv, frame, call, counters, runobs, passed, torn,
                   failedIds, ending, prev>>

\* save_progress, lines 224-227: part of the dumped text reaches the file
SaveProgressFlush ==
    /\ pc = "dumping"
    /\ progress_file.state = "empty"
    /\ progress_file' = [state |-> "partial", processed |-> <<>>]
    /\ UNCHANGED <<env, output_csv, pc, frame, call, counters, runobs, hist>>

\* a save_progress that is handed only the files of this run
SaveProgressClose_Mutant ==
    /\ pc = "dumping"
    /\ progress_file' = [state |-> "valid",
                         processed |-> SelectNotIn(processed_files, Range(loaded))]
    /\ pc' = "save_results"
    /\ UNCHANGED <<env, output_csv, frame, call, counters, runobs, hist>>

\* save_progress, lines 224-227: the dump is complete and the file closed
SaveProgressClose ==
    /\ pc = "dumping"
    /\ progress_file' = [state |-> "valid", processed |-> processed_files]
    /\ pc' = "save_results"
    /\ UNCHANGED <<env, output_csv, frame, call, counters, runobs, hist>>

\* a save_results that may return without writing what it holds
SaveResultsEmpty_Mutant ==
    /\ pc = "save_results"
    /\ pc' = "rate"
    /\ UNCHANGED <<env, files, frame, call, counters, runobs, hist>>

\* save_results, lines 231-233
SaveResultsEmpty ==
    /\ pc = "save_results"
    /\ results = <<>>
    /\ pc' = "rate"
    /\ UNCHANGED <<env, files, frame, call, counters, runobs, hist>>

\* save_results, lines 242-248: append mode, header only into an empty file
SaveResultsOpen ==
    /\ pc = "save_results"
    /\ results # <<>>
    /\ output_csv' = IF output_csv = <<>> THEN <<HEADER>> ELSE output_csv
    /\ row' = 1
    /\ pc' = "writing"
    /\ UNCHANGED <<env, progress_file, max_files, processed_files, remaining_files, idx,
                   call, counters, runobs, hist>>

\* save_results, lines 250-255: one row of self.results
WriteRow ==
    /\ pc = "writing"
    /\ row <= Len(results)
    /\ results[row].shape = "ok"
    /\ output_csv' = Append(output_csv, results[row].invoice_file)
    /\ row' = row + 1
    /\ UNCHANGED <<env, progress_file, pc, max_files, processed_files, remaining_files,
                   idx, call, counters, runobs, hist>>

\* save_results, line 255: DictWriter.writerow raises ValueError on a key that is
\* not in fieldnames; the exception leaves save_results and process_all
WriteRowRaises ==
    /\ pc = "writing"
    /\ row <= Len(results)
    /\ results[row].shape = "extra"
    /\ passed' = passed + Len(results)
    /\ pc' = "raised"
    /\ ending' = Ending("raised")
    /\ UNCHANGED <<env, files, frame, call, counters, runobs, torn, before, failedIds,
                   prev>>

\* save_results, lines 255-257: all rows written, the file is closed
SaveResultsClose ==
    /\ pc = "writing"
    /\ row > Len(results)
    /\ passed' = passed + Len(results)
    /\ pc' = "rate"
    /\ UNCHANGED <<env, files, frame, call, counters, runobs, torn, before, failedIds,
                   ending, prev>>

\* a loop that also sleeps after the last file
RateLimit_Mutant ==
    /\ pc = "rate"
    /\ idx <= Len(remaining_files)
    /\ delays' = delays + 1
    /\ delaySeconds' = delaySeconds + DELAY_BETWEEN_REQUESTS
    /\ pc' = "loop"
    /\ UNCHANGED <<env, files, frame, call, counters, callLog, loaded, hist>>

\* process_all, lines 314-316
RateLimit ==
    /\ pc = "rate"
    /\ idx < Len(remaining_files)
    /\ delays' = delays + 1
    /\ delaySeconds' = delaySeconds + DELAY_BETWEEN_REQUESTS
    /\ pc' = "loop"
    /\ UNCHANGED <<env, files, frame, call, counters, callLog, loaded, hist>>

\* process_all, line 314: no delay after the last file
NoDelay ==
    /\ pc = "rate"
    /\ ~(idx < Len(remaining_files))
    /\ pc' = "loop"
    /\ UNCHANGED <<env, files, frame, call, counters, runobs, hist>>

\* the process is stopped (Ctrl+C, kill, power loss) at any step of process_all;
\* its memory is lost, the two files stay as they are
Halt ==
    /\ pc \in InRun
    /\ pc' = "halted"
    /\ torn' = (torn \/ pc = "writing")
    /\ ending' = Ending("halted")
    /\ Fresh
    /\ UNCHANGED <<env, files, passed, failedIds, prev>>

Next ==
    \/ Construct
    \/ InputEmptied
    \/ NoImages
    \/ LedgerCorrupt
    \/ Resume
    \/ NextItem
    \/ Summary
    \/ AnalyzeReturn
    \/ AnalyzeFail
    \/ AnalyzeQuotaRetry
    \/ AnalyzeQuotaGiveUp
    \/ TallySuccess
    \/ TallyFailure
    \/ SaveProgressOpen
    \/ SaveProgressFlush
    \/ SaveProgressClose
    \/ SaveResultsEmpty
    \/ SaveResultsOpen
    \/ WriteRow
    \/ WriteRowRaises
    \/ SaveResultsClose
    \/ RateLimit
    \/ NoDelay
    \/ Halt

\* ------------------------------------------- parsing one model answer
\* A text is a sequence of symbols: "b" is a backtick, "j" the word json,
\* "w" a blank or newline, "x" any other character, "{" and "}" the braces of
\* the JSON object.
Fence == <<"b", "b", "b">>
JsonFence == <<"b", "b", "b", "j">>

RECURSIVE StripLeft(_)
StripLeft(t) == IF t # <<>> /\ Head(t) = "w" THEN StripLeft(Tail(t)) ELSE t

RECURSIVE StripRight(_)
StripRight(t) ==
    IF t # <<>> /\ t[Len(t)] = "w" THEN StripRight(SubSeq(t, 1, Len(t) - 1)) ELSE t

\* str.strip()
Strip(t) == StripRight(StripLeft(t))

\* str.startswith(p)
StartsWith(t, p) == Len(t) >= Len(p) /\ SubSeq(t, 1, Len(p)) = p

RECURSIVE Remove(_, _)
\* str.replace(p, ""): every occurrence of p, found left to right, is dropped
Remove(t, p) ==
    IF Len(t) < Len(p) THEN t
    ELSE IF SubSeq(t, 1, Len(p)) = p THEN Remove(SubSeq(t, Len(p) + 1, Len(t)), p)
         ELSE <<Head(t)>> \o Remove(Tail(t), p)

\* analyze_invoice, lines 171-177
Clean(text) ==
    LET t == Strip(text)
    IN IF StartsWith(t, JsonFence) THEN Strip(Remove(Remove(t, JsonFence), Fence))
       ELSE IF StartsWith(t, Fence) THEN Strip(Remove(t, Fence))
       ELSE t

\* json.loads, line 180: an object's text gives its content, anything else raises
Decode(t) ==
    IF Len(t) >= 2 /\ t[1] = "{" /\ t[Len(t)] = "}"
       /\ \A i \in 2..(Len(t) - 1) : t[i] \notin {"{", "}"}
    THEN [ok |-> TRUE, value |-> SubSeq(t, 2, Len(t) - 1)]
    ELSE [ok |-> FALSE, value |-> <<"JSONDecodeError">>]

Values == UNION {[1..n -> {"b", "j", "x"}] : n \in 0..MaxValueLen}

Wrappers == [fence : {"none", "plain", "json"}, newlines : BOOLEAN, padded : BOOLEAN]

\* the text a model gives for a document under a wrapper
Wrap(doc, w) ==
    LET nl == IF w.newlines THEN <<"w">> ELSE <<>>
        pad == IF w.padded THEN <<"w">> ELSE <<>>
        open == IF w.fence = "json" THEN JsonFence ELSE Fence
    IN IF w.fence = "none" THEN pad \o doc \o pad
       ELSE pad \o open \o nl \o doc \o nl \o Fence \o pad

\* a model answer has arrived: an object with one field value, wrapped or not
AnswerInit ==
    /\ image_files = <<>>
    /\ Started
    /\ \E v \in Values : document = <<"{">> \o v \o <<"}">>
    /\ wrapper \in Wrappers
    /\ response_text = Wrap(document, wrapper)
    /\ data = Unparsed

\* lines 174-175 and 180: the stripped text starts with ```json
ParseJsonFenced ==
    /\ data = Unparsed
    /\ StartsWith(Strip(response_text), JsonFence)
    /\ data' = Decode(Clean(response_text))
    /\ UNCHANGED <<image_files, runs, document, wrapper, response_text, files, pc, frame,
                   call, counters, runobs, hist>>

\* lines 176-177 and 180: the stripped text starts with ``` and no json
ParseFenced ==
    /\ data = Unparsed
    /\ ~StartsWith(Strip(response_text), JsonFence)
    /\ StartsWith(Strip(response_text), Fence)
    /\ data' = Decode(Clean(response_text))
    /\ UNCHANGED <<image_files, runs, document, wrapper, response_text, files, pc, frame,
                   call, counters, runobs, hist>>

\* lines 171 and 180: the stripped text starts with no fence
ParsePlain ==
    /\ data = Unparsed
    /\ ~StartsWith(Strip(response_text), Fence)
    /\ data' = Decode(Clean(response_text))
    /\ UNCHANGED <<image_files, runs, document, wrapper, response_text, files, pc, frame,
                   call, counters, runobs, hist>>

AnswerNext ==
    \/ ParseJsonFenced
    \/ ParseFenced
    \/ ParsePlain

AnswerSpec == AnswerInit /\ [][AnswerNext]_vars

Spec == Init /\ [][Next]_vars

TypeOK ==
    /\ pc \in InRun \cup Ended \cup {"idle"}
    /\ progress_file.state \in {"absent", "valid", "empty", "partial"}
    /\ idx \in 0..MaxImages
    /\ attempt \in 0..(max_retries - 1)
    /\ runs \in 1..MaxRuns

\* ------------------------------------------------------------------ claims
NoDuplicates(s) == \A i, j \in 1..Len(s) : i # j => s[i] # s[j]

\* C1: whatever runs, failures and halts have happened, invoice_data.csv holds
\* at most one data row per invoice_file.
C1_OneRowPerIdentifier == NoDuplicates(DataRows(output_csv))

\* C2: at every point where the process can be halted, every identifier of the
\* persisted ledger has a row in the persisted result store.
C2_LedgerHasStoredRow ==
    progress_file.state = "valid" =>
        Range(progress_file.processed) \subseteq Range(DataRows(output_csv))

\* C3: a run started after a halt that came once item k >= 1 was processed and
\* persisted calls analyze_invoice for no identifier the loaded ledger holds,
\* and when it reaches its summary the store has no two rows with the same
\* identifier.
C3_ResumeCorrect ==
    (/\ prev.end = "halted" /\ prev.persisted
     /\ pc \in InRun \cup {"done"}) =>
        /\ Range(callLog) \cap Range(loaded) = {}
        /\ pc = "done" => NoDuplicates(DataRows(output_csv))

Quota == {"quota", "quotaHint"}

\* the item the loop holds has been tallied as failed
CurrentFailed == idx >= 1 /\ remaining_files[idx] \notin Range(processed_files)

C6_LedgerNeverTorn ==
    /\ progress_file.state \in {"absent", "valid"}
    /\ pc = "dumping" =>
          \/ progress_file = before
          \/ progress_file = [state |-> "valid", processed |-> processed_files]

\* C7: once the loop of process_all has taken an item, no outcome of that item
\* makes process_all end with an exception.
C7_ItemErrorsNeverAbort == pc = "raised" => idx = 0

\* C8: a failed item adds exactly one to failed_count and leaves the ledger, in
\* memory and on disk, as it was; the in-memory ledger grows only by the
\* identifier of a returned record; no identifier whose latest processing
\* failed is in either ledger, and each is in the next run's remaining files.
C8_FailedNotMarked ==
    [][/\ (pc = "tally" /\ result = None /\ pc' # "halted") =>
              /\ failed_count' = failed_count + 1
              /\ processed_files' = processed_files
              /\ progress_file' = progress_file
       /\ (pc \in InRun /\ pc' \in InRun /\ processed_files' # processed_files) =>
              /\ pc = "tally"
              /\ result # None
              /\ processed_files' = Append(processed_files, result.invoice_file)
       /\ failedIds' \cap Range(processed_files') = {}
       /\ failedIds' \cap Range(progress_file'.processed) = {}
       /\ (pc = "idle" /\ pc' = "loop") =>
              failedIds \subseteq Range(SelectNotIn(image_files, Range(processed_files')))
      ]_vars

\* C8 witness: a later run has in its work list a file that failed before.
C8_Witness ==
    /\ runs >= 2
    /\ pc = "loop"
    /\ idx = 0
    /\ prev.failed
    /\ \E f \in failedIds : f \in Range(remaining_files)

IsPrefix(s, t) == Len(s) <= Len(t) /\ SubSeq(t, 1, Len(s)) = s

\* C9: whenever no save_results is under way (and none was cut short by a
\* halt), a non-empty invoice_data.csv starts with its only header row and
\* has as many data rows as records were handed to save_results; a step
\* never changes or removes a row already written.
C9_StoreAppendSafety ==
    /\ []((~torn /\ pc # "writing" /\ output_csv # <<>>) =>
            /\ Head(output_csv) = HEADER
            /\ Len(HeaderRows(output_csv)) = 1
            /\ Len(DataRows(output_csv)) = passed)
    /\ [][IsPrefix(output_csv, output_csv')]_vars

\* C10: the rate-limit delay is made only after an item that is not the last,
\* once that item's ledger and rows are on disk, one delay of 4 seconds per
\* such item; the model is first called for item i after i-1 delays; a run
\* over n >= 1 items ends with n-1 delays, 2 delays and 8 seconds for n = 3.
C10_RateLimit ==
    [][/\ (delays' # delays /\ pc' \notin {"idle", "halted"}) =>
              /\ pc = "rate" /\ pc' = "loop"
              /\ idx < Len(remaining_files)
              /\ delays' = delays + 1
              /\ delays' = idx
              /\ delaySeconds' = delaySeconds + 4
              /\ progress_file = [state |-> "valid", processed |-> processed_files]
              /\ \A i \in 1..Len(results) :
                     results[i].invoice_file \in Range(DataRows(output_csv))
       /\ pc' = "analyze" => delays' = idx' - 1
       /\ (pc' = "done" /\ Len(remaining_files') >= 1) =>
              /\ delays' = Len(remaining_files') - 1
              /\ delaySeconds' = 4 * (Len(remaining_files') - 1)
       /\ (pc' = "done" /\ Len(remaining_files') = 3) =>
              (delays' = 2 /\ delaySeconds' = 8)
      ]_vars

\* C10 witness: a run over three files has reached its summary.
C10_Witness ==
    /\ pc = "done"
    /\ Len(remaining_files) = 3
    /\ delays = 2
    /\ delaySeconds = 8

\* an item of the run has been persisted and the model has not yet been called
\* for the next one
BetweenItems ==
    /\ idx >= 1
    /\ \/ pc \in {"rate", "loop", "done"}
       \/ pc = "analyze" /\ idx >= 2 /\ calls = 0

\* C11: from the end of an item's persistence to the first model call for the
\* next item, progress.json holds exactly the in-memory processed_files and
\* invoice_data.csv has a row for every record the run has obtained.
C11_PerItemDurability ==
    BetweenItems =>
        /\ progress_file = [state |-> "valid", processed |-> processed_files]
        /\ \A i \in 1..Len(results) :
               results[i].invoice_file \in Range(DataRows(output_csv))
        /\ Range(processed_files) \ Range(loaded) \subseteq Range(DataRows(output_csv))

\* C11 witness: two items are done, one succeeded and one failed, and the third
\* is about to be analysed.
C11_Witness ==
    /\ pc = "analyze" /\ idx = 3 /\ calls = 0
    /\ processed_count = 1
    /\ failed_count = 1

Undecodable == progress_file.state \in {"empty", "partial"}

\* C12 as stated: a process_all that starts on an undecodable progress.json
\* ends by raising, with no model call and with both files untouched.
C12_CorruptLedgerRaises ==
    [][(pc = "idle" /\ Undecodable /\ pc' # "idle") =>
           /\ pc' = "raised"
           /\ UNCHANGED files
           /\ callLog' = <<>> /\ calls' = 0
      ]_vars

\* C12 as amended: a process_all that finds an eligible image and an
\* undecodable progress.json ends by raising, with no model call and with
\* both files untouched.
C12_CorruptLedgerRaisesWithInput ==
    [][(pc = "idle" /\ Undecodable /\ image_files # <<>> /\ pc' # "idle") =>
           /\ pc' = "raised"
           /\ UNCHANGED files
           /\ callLog' = <<>> /\ calls' = 0
      ]_vars

\* C12 witness: a lifetime has ended at load_progress on a ledger that a halt
\* inside save_progress left half written.
C12_Witness ==
    /\ pc = "raised"
    /\ ending.end = "raised"
    /\ idx = 0 /\ callLog = <<>>
    /\ progress_file.state = "partial"
    /\ image_files # <<>>

\* C13: a process_all that finds no eligible image returns at once: it does not
\* read progress.json (an undecodable one does not make it raise), calls the
\* model for nothing and leaves both files as they are.
C13_NoInputNoWrites ==
    [][(pc = "idle" /\ image_files = <<>> /\ pc' # "idle") =>
           /\ pc' = "noinput"
           /\ UNCHANGED files
           /\ UNCHANGED <<processed_files, remaining_files, loaded, callLog, calls,
                          results, processed_count, failed_count>>
      ]_vars

\* C13 witness: process_all has returned for want of images while an earlier
\* run's ledger and rows are on disk.
C13_Witness ==
    /\ pc = "noinput"
    /\ progress_file.state = "valid"
    /\ output_csv # <<>>

\* C14: every ledger a save_progress of a run writes holds all identifiers
\* load_progress returned at the start of the run and all identifiers the
\* file held when that save_progress began.
C14_LedgerGrows ==
    [][(pc \in InRun /\ progress_file'.state = "valid" /\ progress_file' # progress_file) =>
           /\ Range(loaded) \subseteq Range(progress_file'.processed)
           /\ Range(before.processed) \subseteq Range(progress_file'.processed)
           /\ Range(processed_files) \subseteq Range(progress_file'.processed)
      ]_vars

\* C14 witness: a run that loaded a non-empty ledger has written a larger one.
C14_Witness ==
    /\ pc = "save_results"
    /\ Len(loaded) >= 1
    /\ Len(before.processed) >= 1
    /\ Len(progress_file.processed) > Len(loaded)

\* position of a file in the enumeration
PosIn(s, x) == CHOOSE i \in 1..Len(s) : s[i] = x

\* s lists members of image_files in the order image_files has them
InEnumerationOrder(s) ==
    \A i, j \in 1..Len(s) : i < j => PosIn(image_files, s[i]) < PosIn(image_files, s[j])

Min(a, b) == IF a <= b THEN a ELSE b

\* C15: the work list of a run is, in enumeration order, the enumerated files
\* that are not in the loaded ledger; when max_files = m is given it is the
\* first m of them, and analyze_invoice is called for no other file and for
\* no more than m files.
C15_WorkList ==
    pc \in InRun \cup {"done"} =>
        LET todo == Range(image_files) \ Range(loaded)
            want == IF max_files = NoCap THEN Cardinality(todo)
                    ELSE Min(max_files, Cardinality(todo))
        IN /\ Range(remaining_files) \subseteq todo
           /\ InEnumerationOrder(remaining_files)
           /\ Len(remaining_files) = want
           /\ \A x \in todo \ Range(remaining_files) :
                  \A i \in 1..Len(remaining_files) :
                      PosIn(image_files, remaining_files[i]) < PosIn(image_files, x)
           /\ IsPrefix(callLog, remaining_files)
           /\ max_files # NoCap => Len(callLog) <= max_files

NotRetried == {"malformed", "nondict", "error"}

\* C16: a model answer that does not decode, one that decodes to something
\* other than an object, and any other fault of the call end analyze_invoice
\* at that call: it returns None with no backoff sleep and no further call for
\* the item, whatever number of attempts is left.
C16_NoRetryOnOtherFailures ==
    [][(pc = "analyze" /\ lastOutcome' \in NotRetried) =>
           /\ pc' = "tally"
           /\ result' = None
           /\ calls' = calls + 1
           /\ Len(sleeps') <= Len(sleeps)
           /\ attempt' <= attempt
           /\ idx' = idx
           /\ NoDuplicates(callLog')
      ]_vars

\* C16 witness: the second call for an item, made after one quota retry, gave
\* text that does not decode, and analyze_invoice has returned with an
\* attempt left.
C16_Witness ==
    /\ pc = "tally"
    /\ lastOutcome = "malformed"
    /\ calls = 2
    /\ result = None

\* what the backoff sleeps of an item must look like in any case: at most two,
\* the i-th after the i-th call, each as long as the failure suggested or 60 s
BackoffShape ==
    /\ Len(sleeps) <= 2
    /\ \A i \in 1..Len(sleeps) :
           /\ sleeps[i].after = i
           /\ sleeps[i].after < 3
           /\ sleeps[i].seconds = IF sleeps[i].hint THEN SuggestedRetryDelay ELSE 60

\* C17 as stated: when analyze_invoice returns, it has slept at most twice,
\* each sleep after a call and before a later call for the same item and
\* none after the third call, each for the suggested delay or 60 s.
C17_BackoffBetweenCalls ==
    [][(pc = "analyze" /\ pc' = "tally") =>
           /\ BackoffShape
           /\ \A i \in 1..Len(sleeps) : sleeps[i].after < calls'
      ]_vars

\* C17 as amended: analyze_invoice sleeps at most twice per item, the i-th
\* sleep after the i-th call (never after the third), for the suggested delay
\* or 60 s; each sleep is followed by a further attempt for the same item,
\* and that attempt calls the model unless the image cannot be opened, in
\* which case the item ends with its last sleep after its last call.
C17_BackoffBeforeNextAttempt ==
    [][/\ BackoffShape'
       /\ (pc = "analyze" /\ pc' = "tally" /\ lastOutcome' # "noimage") =>
              calls' = Len(sleeps) + 1
       /\ (pc = "analyze" /\ pc' = "tally" /\ lastOutcome' = "noimage") =>
              calls' = Len(sleeps)
       /\ (sleeps' # sleeps /\ sleeps' # <<>>) =>
              /\ pc = "analyze" /\ pc' = "analyze"
              /\ lastOutcome' \in Quota
              /\ attempt' = attempt + 1 /\ attempt' < 3
              /\ idx' = idx /\ remaining_files' = remaining_files
      ]_vars

\* C17 witness: an item is at its third attempt after two calls and two
\* sleeps, the first for the suggested delay and the second for the default.
C17_Witness ==
    /\ pc = "analyze"
    /\ attempt = 2
    /\ calls = 2
    /\ Len(sleeps) = 2
    /\ sleeps[1].seconds = SuggestedRetryDelay
    /\ sleeps[2].seconds = 60
    /\ lastOutcome = "quota"

\* C18: whether the answer comes in a ``` fence, in a ```json fence or in no
\* fence, the parser decodes exactly the document inside: the record is the
\* one the bare document gives, also when a field value holds three backticks.
C18_FenceStripping ==
    data # Unparsed => data = Decode(Strip(document))

\* C19: while a run analyses its i-th item, analyze_invoice has been called for
\* the first i items of the work list, in that order, and i-1 of them are
\* counted; at the summary every item of the work list has been analysed once,
\* processed_count + failed_count is the length of the work list and
\* processed_count is the number of identifiers the run added to the ledger.
C19_RunSummary ==
    /\ pc \in {"analyze", "tally"} =>
           /\ callLog = SubSeq(remaining_files, 1, idx)
           /\ processed_count + failed_count = idx - 1
    /\ pc = "done" =>
           /\ callLog = remaining_files
           /\ processed_count + failed_count = Len(remaining_files)
           /\ processed_count = Len(processed_files) - Len(loaded)
           /\ processed_count = Cardinality(Range(processed_files) \ Range(loaded))

\* C19 witness: a run over three files has reached its summary with successes
\* and failures.
C19_Witness ==
    /\ pc = "done"
    /\ Len(remaining_files) = 3
    /\ processed_count >= 1
    /\ failed_count >= 1

\* C20: no ledger, on disk or in memory, lists an identifier twice.
C20_LedgerDuplicateFree ==
    /\ NoDuplicates(progress_file.processed)
    /\ NoDuplicates(processed_files)

\* C20 witness: a second run has added to the ledger the first one left.
C20_Witness ==
    /\ runs = 2
    /\ Len(loaded) >= 1
    /\ progress_file.state = "valid"
    /\ Len(progress_file.processed) = 3
====
